---- MODULE Spec2Model ----
(***************************************************************************)
(* A model of analyze.py: the dependency-graph extraction script.  One run *)
(* of the script is a walk of pc through the __main__ block and main();     *)
(* the graph database, the tools and the file system are the environment.  *)
(* File names are sequences of characters, so that the shell wildcard of   *)
(* the clean mode and str.strip are computed as the code computes them.    *)
(***************************************************************************)
EXTENDS Naturals, Integers, Sequences, FiniteSets, TLC

\* ------------------------------------------------------------------ bounds
MaxRuns == 2
MaxFaults == 1
MaxLabelLen == 3

\* ------------------------------------------------------- names and paths
W == <<"w">>
BUILD == <<"b","u","i","l","d">>
NODIR == <<"n","o","d","i","r">>
R1 == <<"r","1">>
R2 == <<"r","2">>
MA == <<"a">>
MB == <<"b">>
MC == <<"c">>
MN == <<"n">>
MF == <<"f">>
CARGO_TOML == <<"C","a","r","g","o",".","t","o","m","l">>
ANALYZE_PY == <<"a","n","a","l","y","z","e",".","p","y">>
HIDDEN_DOT == <<".","h",".","d","o","t">>
DASH_PNG == <<"-","k",".","p","n","g">>
DOT_EXT == <<".","d","o","t">>
PNG_EXT == <<".","p","n","g">>
CPPDEPS == <<"c","p","p","d","e","p","s">>
PYDEPS == <<"p","y","d","e","p","s">>
RSDEPS_ == <<"r","s","d","e","p","s","_">>

\* WORK_DIRECTORY: the directory of the script, an absolute path.
WORK_DIRECTORY == <<W>>
MG_HOST == "127.0.0.1:7687"
OTHER_HOST == "10.0.0.2:7687"
Hosts == {MG_HOST, OTHER_HOST}

\* A path argument: absolute or relative, a sequence of components.
AbsPath(parts) == [abs |-> TRUE, parts |-> parts]
RelPath(parts) == [abs |-> FALSE, parts |-> parts]

\* How the operating system resolves a path against the process's cwd.
Resolve(cwd, p) == IF p.abs THEN p.parts ELSE cwd \o p.parts

\* os.path.join(p, name) and os.path.basename(p)
PathJoin(p, name) == [abs |-> p.abs, parts |-> Append(p.parts, name)]
Basename(p) == p.parts[Len(p.parts)]

\* The directory tree outside the generated files (it does not change).
Dirs ==
  { <<>>, <<W>>, <<BUILD>>,
    <<W, R1>>, <<W, R1, MA>>, <<W, R1, MC>>, <<W, R1, MC, MN>>,
    <<W, R2>>, <<W, R2, MA>>, <<W, R2, MB>> }
StaticFiles ==
  { <<W, R1, MA, CARGO_TOML>>, <<W, R1, MF>>, <<W, R1, MC, MN, CARGO_TOML>>,
    <<W, R2, MA, CARGO_TOML>>, <<W, R2, MB, CARGO_TOML>> }

\* os.scandir(d): the entries directly under d, as paths built on d.
Children(abs) ==
  { e \in Dirs \cup StaticFiles : Len(e) = Len(abs) + 1 /\ SubSeq(e, 1, Len(abs)) = abs }

\* ---------------------------------------------------------- str and glob
RECURSIVE lstrip(_, _)
lstrip(s, chars) ==
  IF s # <<>> /\ Head(s) \in chars THEN lstrip(Tail(s), chars) ELSE s

RECURSIVE rstrip(_, _)
rstrip(s, chars) ==
  IF s # <<>> /\ s[Len(s)] \in chars THEN rstrip(SubSeq(s, 1, Len(s) - 1), chars) ELSE s

\* str.strip(chars): every leading and trailing character of the set goes.
strip(s, chars) == rstrip(lstrip(s, chars), chars)

QuoteChars == {"'", "\""}

RECURSIVE Match(_, _)
Match(p, n) ==
  IF p = <<>> THEN n = <<>>
  ELSE IF Head(p) = "*"
       THEN Match(Tail(p), n) \/ (n # <<>> /\ Match(p, Tail(n)))
       ELSE n # <<>> /\ Head(n) = Head(p) /\ Match(Tail(p), Tail(n))

\* sh pathname expansion: a leading period is matched only explicitly.
GlobMatch(p, n) ==
  /\ (n # <<>> /\ Head(n) = ".") => (p # <<>> /\ Head(p) = ".")
  /\ Match(p, n)

\* The words the shell hands to rm for one pattern: the matching names, or
\* the pattern itself when nothing matches.
Expand(p, names) ==
  LET m == { n \in names : GlobMatch(p, n) } IN IF m = {} THEN {p} ELSE m

RM_PATTERNS == { <<"*">> \o DOT_EXT \o <<"*">>, <<"*">> \o PNG_EXT }

\* ------------------------------------------------------------ DOT graphs
\* A DOT file's content: malformed text, or nodes (each an id and its
\* attributes, a function from attribute names) and edges.
Malformed == [ok |-> FALSE, nodes |-> <<>>, edges |-> <<>>]
Node(id, attrs) == [id |-> id, attrs |-> attrs]
NoAttrs == [a \in {} |-> <<>>]
Labelled(id, label) == Node(id, [a \in {"label"} |-> label])

\* What the external tools write when they succeed: two quoted labels, one edge.
ToolGraph ==
  [ok |-> TRUE,
   nodes |-> << Labelled("n1", <<"\"","a","\"">>), Labelled("n2", <<"\"","b","\"">>) >>,
   edges |-> << <<"n1", "n2">> >>]

RECURSIVE AnnotateFrom(_, _, _)
AnnotateFrom(nodes, i, labels) ==
  \* the for loop of dot_to_mg_graph from node i on: the annotated nodes, or
  \* exc = "KeyError" when some node has no data["label"]
  IF i > Len(nodes) THEN [exc |-> "", nodes |-> <<>>]
  ELSE IF "label" \notin DOMAIN nodes[i].attrs
       THEN [exc |-> "KeyError", nodes |-> <<>>]
       ELSE LET rest == AnnotateFrom(nodes, i + 1, labels)
                data == nodes[i].attrs
                new  == [a \in DOMAIN data \cup {"labels", "name"} |->
                           IF a = "labels" THEN labels
                           ELSE IF a = "name" THEN strip(data["label"], QuoteChars)
                           ELSE data[a]]
            IN [exc |-> rest.exc,
                nodes |-> IF rest.exc = "" THEN <<Node(nodes[i].id, new)>> \o rest.nodes
                          ELSE <<>>]

\* dot_to_mg_graph(path, labels), given what is at path (<<>> when no file).
dot_to_mg_graph(at, labels) ==
  IF at = <<>> THEN [exc |-> "FileNotFoundError", nodes |-> <<>>, edges |-> <<>>]
  ELSE IF ~at[1].ok THEN [exc |-> "ParseError", nodes |-> <<>>, edges |-> <<>>]
  ELSE LET r == AnnotateFrom(at[1].nodes, 1, labels)
       IN [exc |-> r.exc, nodes |-> r.nodes,
           edges |-> IF r.exc = "" THEN at[1].edges ELSE <<>>]

\* nx_to_cypher(graph): one CREATE per node, then one per edge.
nx_to_cypher(g) ==
  [i \in 1..Len(g.nodes) |->
     [op |-> "node", id |-> g.nodes[i].id, labels |-> g.nodes[i].attrs["labels"],
      name |-> g.nodes[i].attrs["name"], to |-> ""]]
  \o
  [i \in 1..Len(g.edges) |->
     [op |-> "edge", id |-> g.edges[i][1], labels |-> <<>>, name |-> <<>>,
      to |-> g.edges[i][2]]]

\* ------------------------------------------------------ readiness checks
\* subprocess.run: FileNotFoundError when the binary is missing, and with
\* check=True CalledProcessError on a non-zero exit.
RunRaises(outcome, check) ==
  outcome = "missing" \/ (check /\ outcome = "nonzero")

Returned(b) == IF b THEN "True" ELSE "False"

\* is_memgraph_ready(host, port) against the reachability of the databases
is_memgraph_ready(up, host) == Returned(up[host])

\* is_cmake_ready(), given how `cmake --version` ends
is_cmake_ready(version) ==
  IF RunRaises(version, FALSE) THEN "False" ELSE "True"

\* is_cargo_ready(), given how `cargo --version` and `cargo install --list`
\* end and whether the listing mentions cargo-deps
is_cargo_ready(version, list, mentions) ==
  IF RunRaises(version, TRUE) THEN "False"
  ELSE IF RunRaises(list, TRUE) THEN "raise"
  ELSE IF list # "zero" THEN "False"
  ELSE IF mentions THEN "True"
  ELSE "False"

\* ------------------------------------------------------------------ state
VARIABLES
  pc,      \* where the running script is; "init", "done", "crashed" between runs
  args,    \* the parsed command line of the current run
  run,     \* how many runs were started
  cwd,     \* the process's working directory (os.chdir changes it)
  files,   \* WORK_DIRECTORY's plain files: name -> content
  reach,   \* which databases answer: host -> BOOLEAN
  faults,  \* how many times the environment failed the script so far
  db,      \* each database's content: host -> set of applied CREATE statements
  eco,     \* the ecosystem main() is at: "cpp", "py", "rs" ("call": a direct call)
  module,  \* the module path of the for loop of main()
  mods,    \* the rest of the for loop's list
  ld,      \* the frame of dot_to_memgraph: its arguments and remaining queries
  graph,   \* what the last dot_to_mg_graph call gave
  trace,   \* the operations of the current run, in order
  exc      \* the function an uncaught exception left, "" when none

vars == <<pc, args, run, cwd, files, reach, faults, db, eco, module, mods, ld, graph, trace, exc>>

Event(op, f, probe, res) == [op |-> op, f |-> f, probe |-> probe, res |-> res]

NoGraph == [exc |-> "", nodes |-> <<>>, edges |-> <<>>]
NoFrame == [path |-> <<>>, labels |-> <<>>, host |-> MG_HOST, queries |-> <<>>]
NoModule == RelPath(<<>>)

\* The values --cpp-dir and --rust-dir take: <<>> is None, <<p>> a path.
CppDirs == { <<>>, <<AbsPath(<<BUILD>>)>>, <<AbsPath(<<NODIR>>)>> }
RustDirs == { <<>>, <<AbsPath(<<W, R1>>)>>, <<AbsPath(<<W, R2>>)>>, <<RelPath(<<R2>>)>> }

\* The command lines tried: --clean alone, or an analyze run with any dirs.
CommandLines ==
  { [clean |-> TRUE, cpp_dir |-> <<>>, rust_dir |-> <<>>] } \cup
  { [clean |-> FALSE, cpp_dir |-> cpp, rust_dir |-> rust] : cpp \in CppDirs, rust \in RustDirs }

\* Files found in WORK_DIRECTORY that the script did not write.
Foreign == { HIDDEN_DOT, DASH_PNG }
SourceFile == [ok |-> FALSE, nodes |-> <<>>, edges |-> <<>>]

Restrict(f, S) == [n \in S |-> f[n]]
WriteFile(fs, name, content) ==
  [n \in DOMAIN fs \cup {name} |-> IF n = name THEN content ELSE fs[n]]
\* What is at WORK_DIRECTORY/name: <<>> when nothing, else <<content>>.
ReadFile(fs, name) == IF name \in DOMAIN fs THEN <<fs[name]>> ELSE <<>>

\* The names in WORK_DIRECTORY: its plain files and its subdirectories.
WorkNames(fs) ==
  DOMAIN fs \cup { e[Len(e)] : e \in Children(WORK_DIRECTORY) }

\* A clean that forgets the images: rm *.dot* alone.
RmDotOnly(fs) ==
  LET words == Expand(<<"*">> \o DOT_EXT \o <<"*">>, WorkNames(fs))
  IN IF \E w \in words : Head(w) = "-" THEN fs
     ELSE Restrict(fs, DOMAIN fs \ words)

\* subprocess.run("rm *.dot* *.png", shell=True) in WORK_DIRECTORY: rm takes
\* a word that begins with "-" for options, finds none it knows and removes
\* nothing; otherwise it removes every plain file among its words.
RmWildcards(fs) ==
  LET words == UNION { Expand(p, WorkNames(fs)) : p \in RM_PATTERNS }
  IN IF \E w \in words : Head(w) = "-" THEN fs
     ELSE Restrict(fs, DOMAIN fs \ words)

\* The DOT and PNG paths main() builds under WORK_DIRECTORY.
OutBase(e, m) ==
  CASE e = "cpp" -> CPPDEPS
    [] e = "py" -> PYDEPS
    [] OTHER -> RSDEPS_ \o Basename(m)
OutDot(e, m) == OutBase(e, m) \o DOT_EXT
OutPng(e, m) == OutBase(e, m) \o PNG_EXT

\* The labels main() passes to dot_to_memgraph.
CppLabels == <<"Cpp">>
PyLabels == <<"Python">>
RustLabels == <<"Rust">>
\* A pasted call that kept the label of the call above it.
LabelsOfPasted(e) ==
  CASE e = "cpp" -> CppLabels
    [] OTHER -> PyLabels

LabelsOf(e) ==
  CASE e = "cpp" -> CppLabels
    [] e = "py" -> PyLabels
    [] OTHER -> RustLabels

Perms(S) ==
  { s \in [1..Cardinality(S) -> S] : \A x \in S : \E i \in DOMAIN s : s[i] = x }

\* The environment fails the script (a tool that is missing or exits
\* non-zero, a database that changes) at most MaxFaults times.
Charge(failed) ==
  IF failed THEN faults < MaxFaults /\ faults' = faults + 1 ELSE faults' = faults

Idle == pc \in {"init", "done", "crashed"}

Raise(site) ==
  /\ pc' = "crashed"
  /\ exc' = site

TypeOK ==
  /\ pc \in {"init", "done", "crashed", "clean", "startup_probe", "startup_delete",
             "cmake_check", "gen", "render", "load", "dtm", "exec", "cargo_check",
             "scan", "next_module"}
  /\ run \in 0..MaxRuns + 1
  /\ reach \in [Hosts -> BOOLEAN]

Init ==
  /\ pc = "init"
  /\ args = [clean |-> FALSE, cpp_dir |-> <<>>, rust_dir |-> <<>>]
  /\ run = 0
  /\ cwd = WORK_DIRECTORY
  /\ \E F \in SUBSET Foreign :
       files = [n \in F \cup {ANALYZE_PY} |-> SourceFile]
  /\ reach \in { r \in [Hosts -> BOOLEAN] : ~r[OTHER_HOST] }
  /\ faults = 0
  /\ db = [h \in Hosts |-> {}]
  /\ eco = ""
  /\ module = NoModule
  /\ mods = <<>>
  /\ ld = NoFrame
  /\ graph = NoGraph
  /\ trace = <<>>
  /\ exc = ""

\* ------------------------------------------------------------- __main__
\* A new process, started in the script's directory: argparse, then the
\* clean branch or the analyze branch.
Start ==
  /\ Idle
  /\ run < MaxRuns
  /\ \E a \in CommandLines :
       /\ args' = a
       /\ pc' = IF a.clean THEN "clean" ELSE "startup_probe"
  /\ run' = run + 1
  /\ cwd' = WORK_DIRECTORY
  /\ eco' = ""
  /\ module' = NoModule
  /\ mods' = <<>>
  /\ ld' = NoFrame
  /\ graph' = NoGraph
  /\ trace' = <<>>
  /\ exc' = ""
  /\ UNCHANGED <<files, reach, faults, db>>

\* if args.clean: os.chdir(WORK_DIRECTORY); rm *.dot* *.png
Clean ==
  /\ pc = "clean"
  /\ cwd' = WORK_DIRECTORY
  /\ files' = RmWildcards(files)
  /\ trace' = Append(trace, Event("rm", <<>>, DOMAIN files \ DOMAIN RmWildcards(files), ""))
  /\ pc' = "done"
  /\ UNCHANGED <<args, run, reach, faults, db, eco, module, mods, ld, graph, exc>>

\* else: if is_memgraph_ready(MG_HOST, MG_PORT):
StartupProbe ==
  /\ pc = "startup_probe"
  /\ LET r == is_memgraph_ready(reach, MG_HOST)
     IN /\ trace' = Append(trace, Event("is_memgraph_ready", <<>>, IF reach[MG_HOST] THEN "up" ELSE "down", r))
        /\ pc' = IF r = "True" THEN "startup_delete" ELSE "cmake_check"
  /\ UNCHANGED <<args, run, cwd, files, reach, faults, db, eco, module, mods, ld, graph, exc>>

\* memgraph.execute("MATCH (n) DETACH DELETE n;")
StartupDelete ==
  /\ pc = "startup_delete"
  /\ IF reach[MG_HOST]
     THEN /\ db' = [db EXCEPT ![MG_HOST] = {}]
          /\ trace' = Append(trace, Event("delete", <<>>, "", ""))
          /\ pc' = "cmake_check"
          /\ exc' = exc
     ELSE /\ Raise("__main__")
          /\ UNCHANGED <<db, trace>>
  /\ UNCHANGED <<args, run, cwd, files, reach, faults, eco, module, mods, ld, graph>>

\* ---------------------------------------------------------------- main()
\* if is_cmake_ready() and args.cpp_dir is not None:
CmakeCheck ==
  /\ pc = "cmake_check"
  /\ \E version \in {"missing", "nonzero", "zero"} :
       LET r == is_cmake_ready(version)
       IN /\ Charge(version # "zero")
          /\ trace' = Append(trace, Event("is_cmake_ready", <<>>, version, r))
          /\ eco' = IF r = "True" /\ args.cpp_dir # <<>> THEN "cpp" ELSE "py"
  /\ pc' = "gen"
  /\ UNCHANGED <<args, run, cwd, files, reach, db, module, mods, ld, graph, exc>>

\* generate_cmake_dot(args.cpp_dir, cppdeps_dot): os.chdir, then cmake
\* --graphviz, which writes the file itself and, failing, writes nothing.
generate_cmake_dot ==
  /\ pc = "gen"
  /\ eco = "cpp"
  /\ LET target == Resolve(cwd, args.cpp_dir[1])
     IN IF target \notin Dirs
        THEN /\ Raise("generate_cmake_dot")
             /\ UNCHANGED <<cwd, files, trace, faults>>
        ELSE /\ cwd' = target
             /\ \E cmake \in {"nonzero", "zero"} :
                  /\ Charge(cmake # "zero")
                  /\ files' = IF cmake = "zero"
                              THEN WriteFile(files, OutDot(eco, module), ToolGraph)
                              ELSE files
                  /\ trace' = Append(trace, Event("gen", OutDot(eco, module), cmake, ""))
             /\ pc' = "render"
             /\ exc' = exc
  /\ UNCHANGED <<args, run, reach, db, eco, module, mods, ld, graph>>

\* generate_pip_dot / generate_cargo_dot: os.chdir, open(output_file, "w"),
\* then the tool with its stdout on the file.
GenerateToStdout(dir, tools, site) ==
  LET target == Resolve(cwd, dir)
  IN IF target \notin Dirs
     THEN /\ Raise(site)
          /\ UNCHANGED <<cwd, files, trace, faults>>
     ELSE /\ cwd' = target
          /\ \E tool \in tools :
               /\ Charge(tool # "zero")
               /\ files' = WriteFile(files, OutDot(eco, module),
                                     IF tool = "zero" THEN ToolGraph ELSE Malformed)
               /\ trace' = Append(trace, Event("gen", OutDot(eco, module), tool, ""))
               /\ IF RunRaises(tool, FALSE)
                  THEN Raise(site)
                  ELSE pc' = "render" /\ exc' = exc

generate_pip_dot ==
  /\ pc = "gen"
  /\ eco = "py"
  /\ GenerateToStdout(AbsPath(WORK_DIRECTORY), {"missing", "nonzero", "zero"}, "generate_pip_dot")
  /\ UNCHANGED <<args, run, reach, db, eco, module, mods, ld, graph>>

generate_cargo_dot ==
  /\ pc = "gen"
  /\ eco = "rs"
  /\ GenerateToStdout(module, {"nonzero", "zero"}, "generate_cargo_dot")
  /\ UNCHANGED <<args, run, reach, db, eco, module, mods, ld, graph>>

\* dot_to_png(input_file, output_file): dot -Tpng writes the image of a
\* graph it can read; the return code is not looked at.
dot_to_png ==
  /\ pc = "render"
  /\ LET input == ReadFile(files, OutDot(eco, module))
         readable == input # <<>> /\ input[1].ok
     IN \E dot \in {"missing", IF readable THEN "zero" ELSE "nonzero"} :
          /\ Charge(dot = "missing")
          /\ trace' = Append(trace, Event("render", OutDot(eco, module), dot, ""))
          /\ IF RunRaises(dot, FALSE)
             THEN /\ Raise("dot_to_png")
                  /\ files' = files
             ELSE /\ files' = IF dot = "zero"
                              THEN WriteFile(files, OutPng(eco, module), SourceFile)
                              ELSE files
                  /\ pc' = "load"
                  /\ exc' = exc
  /\ UNCHANGED <<args, run, cwd, reach, db, eco, module, mods, ld, graph>>

\* dot_to_memgraph(<x>deps_dot, [<label>]): the call main() makes.
MainLoad ==
  /\ pc = "load"
  /\ ld' = [path |-> OutDot(eco, module), labels |-> LabelsOf(eco), host |-> MG_HOST,
            queries |-> <<>>]
  /\ trace' = Append(trace, Event("load", OutDot(eco, module), "", ""))
  /\ pc' = "dtm"
  /\ UNCHANGED <<args, run, cwd, files, reach, faults, db, eco, module, mods, graph, exc>>

\* Where control goes when dot_to_memgraph returns.
Return ==
  /\ pc' = CASE eco = "cpp" -> "gen"
             [] eco = "py" -> "cargo_check"
             [] eco = "rs" -> "next_module"
             [] OTHER -> "done"
  /\ eco' = IF eco = "cpp" THEN "py" ELSE eco

\* dot_to_memgraph up to its for loop: the probe (of the default database),
\* then Memgraph(host, port) and nx_to_cypher(dot_to_mg_graph(path, labels)).
dot_to_memgraph ==
  /\ pc = "dtm"
  /\ LET r == is_memgraph_ready(reach, MG_HOST)
         g == dot_to_mg_graph(ReadFile(files, ld.path), ld.labels)
         probe == Event("is_memgraph_ready", ld.path, IF reach[MG_HOST] THEN "up" ELSE "down", r)
         target == Event("target", ld.path, IF reach[ld.host] THEN "up" ELSE "down", "")
     IN IF r # "True"
        THEN /\ trace' = trace \o <<target, probe, Event("warning", ld.path, "", "")>>
             /\ Return
             /\ UNCHANGED <<ld, graph, exc>>
        ELSE /\ trace' = trace \o <<target, probe>>
             /\ graph' = g
             /\ IF g.exc # ""
                THEN /\ Raise("dot_to_mg_graph")
                     /\ UNCHANGED <<ld, eco>>
                ELSE /\ ld' = [ld EXCEPT !.queries = nx_to_cypher(g)]
                     /\ exc' = exc
                     /\ IF nx_to_cypher(g) = <<>>
                        THEN Return
                        ELSE pc' = "exec" /\ eco' = eco
  /\ UNCHANGED <<args, run, cwd, files, reach, faults, db, module, mods>>

\* One turn of the for loop: memgraph.execute(query) on (host, port).
Execute ==
  /\ pc = "exec"
  /\ IF reach[ld.host]
     THEN /\ db' = [db EXCEPT ![ld.host] =
                      @ \cup {[run |-> run, file |-> ld.path, q |-> Head(ld.queries)]}]
          /\ ld' = [ld EXCEPT !.queries = Tail(@)]
          /\ trace' = Append(trace, Event("insert", ld.path, Head(ld.queries).id, ""))
          /\ exc' = exc
          /\ IF Tail(ld.queries) = <<>>
             THEN Return
             ELSE pc' = "exec" /\ eco' = eco
     ELSE /\ Raise("dot_to_memgraph")
          /\ UNCHANGED <<db, ld, trace, eco>>
  /\ UNCHANGED <<args, run, cwd, files, reach, faults, module, mods, graph>>

\* if is_cargo_ready() and args.rust_dir is not None:
CargoCases ==
  { <<"missing", "none", FALSE>>, <<"nonzero", "none", FALSE>>,
    <<"zero", "nonzero", FALSE>>, <<"zero", "zero", FALSE>>, <<"zero", "zero", TRUE>> }

CargoCheck ==
  /\ pc = "cargo_check"
  /\ \E c \in CargoCases :
       LET r == is_cargo_ready(c[1], c[2], c[3])
       IN /\ Charge(c # <<"zero", "zero", TRUE>>)
          /\ trace' = Append(trace, Event("is_cargo_ready", <<>>, c, r))
          /\ IF r = "raise"
             THEN Raise("is_cargo_ready")
             ELSE /\ pc' = IF r = "True" /\ args.rust_dir # <<>> THEN "scan" ELSE "done"
                  /\ exc' = exc
  /\ UNCHANGED <<args, run, cwd, files, reach, db, eco, module, mods, ld, graph>>

\* [f.path for f in os.scandir(args.rust_dir) if f.is_dir()], in the order
\* the operating system lists the directory
Scan ==
  /\ pc = "scan"
  /\ LET dir == args.rust_dir[1]
         target == Resolve(cwd, dir)
         subdirs == { PathJoin(dir, e[Len(e)]) : e \in Children(target) \cap Dirs }
     IN IF target \notin Dirs
        THEN /\ Raise("main")
             /\ mods' = mods
        ELSE /\ mods' \in Perms(subdirs)
             /\ pc' = "next_module"
             /\ exc' = exc
  /\ UNCHANGED <<args, run, cwd, files, reach, faults, db, eco, module, ld, graph, trace>>

\* for module in ...: if not os.path.isfile(os.path.join(module, "Cargo.toml")): continue
NextModule ==
  /\ pc = "next_module"
  /\ IF mods = <<>>
     THEN /\ pc' = "done"
          /\ UNCHANGED <<mods, module, eco>>
     ELSE /\ mods' = Tail(mods)
          /\ IF Resolve(cwd, PathJoin(Head(mods), CARGO_TOML)) \in StaticFiles
             THEN /\ module' = Head(mods)
                  /\ eco' = "rs"
                  /\ pc' = "gen"
             ELSE /\ pc' = "next_module"
                  /\ UNCHANGED <<module, eco>>
  /\ UNCHANGED <<args, run, cwd, files, reach, faults, db, ld, graph, trace, exc>>

\* ----------------------------------------------------------- environment
\* A database starts or stops answering.  Reachability is read at four
\* places only, so a change at any time is a change right before a read.
ReadPoints == {"startup_probe", "startup_delete", "dtm", "exec"}
EnvFlip(h) ==
  /\ pc \in ReadPoints
  /\ Charge(TRUE)
  /\ reach' = [reach EXCEPT ![h] = ~@]
  /\ UNCHANGED <<pc, args, run, cwd, files, db, eco, module, mods, ld, graph, trace, exc>>

FlipDefault == EnvFlip(MG_HOST)

Next ==
  \/ Start
  \/ Clean
  \/ StartupProbe
  \/ StartupDelete
  \/ CmakeCheck
  \/ generate_cmake_dot
  \/ generate_pip_dot
  \/ generate_cargo_dot
  \/ dot_to_png
  \/ MainLoad
  \/ dot_to_memgraph
  \/ Execute
  \/ CargoCheck
  \/ Scan
  \/ NextModule
  \/ FlipDefault

Spec == Init /\ [][Next]_vars

\* ------------------------------------------- dot_to_memgraph called alone
\* The DOT files a caller may hand over: none, malformed, the tools' graph,
\* a graph one of whose nodes has no label.
EdgeOnly ==
  [ok |-> TRUE, nodes |-> << Labelled("n1", <<"a">>), Node("n2", NoAttrs) >>,
   edges |-> << <<"n1", "n2">> >>]
CallPath == <<"f">> \o DOT_EXT
CallFiles == { <<>>, <<Malformed>>, <<ToolGraph>>, <<EdgeOnly>> }
LabelLists == { <<>>, <<"Cpp">>, <<"A", "B">> }

InitLoad ==
  /\ pc = "init"
  /\ args = [clean |-> FALSE, cpp_dir |-> <<>>, rust_dir |-> <<>>]
  /\ run = 0
  /\ cwd = WORK_DIRECTORY
  /\ \E c \in CallFiles :
       files = IF c = <<>> THEN Restrict(c, {}) ELSE [n \in {CallPath} |-> c[1]]
  /\ reach \in [Hosts -> BOOLEAN]
  /\ faults = 0
  /\ db = [h \in Hosts |-> {}]
  /\ eco = "call"
  /\ module = NoModule
  /\ mods = <<>>
  /\ ld = NoFrame
  /\ graph = NoGraph
  /\ trace = <<>>
  /\ exc = ""

\* dot_to_memgraph(path, labels, host, port) from a caller of its own
CallDotToMemgraph ==
  /\ Idle
  /\ run < MaxRuns
  /\ run' = run + 1
  /\ \E labels \in LabelLists, host \in Hosts :
       ld' = [path |-> CallPath, labels |-> labels, host |-> host, queries |-> <<>>]
  /\ trace' = <<>>
  /\ exc' = ""
  /\ graph' = NoGraph
  /\ pc' = "dtm"
  /\ UNCHANGED <<args, cwd, files, reach, faults, db, eco, module, mods>>

FlipAny == \E h \in Hosts : EnvFlip(h)

NextLoad ==
  \/ CallDotToMemgraph
  \/ dot_to_memgraph
  \/ Execute
  \/ FlipAny

SpecLoad == InitLoad /\ [][NextLoad]_vars

\* ------------------------------------------- dot_to_mg_graph called alone
Alphabet == {"'", "\"", "a"}
Strings == UNION { [1..k -> Alphabet] : k \in 0..MaxLabelLen }
NodeAttrs == { NoAttrs } \cup { [a \in {"label"} |-> l] : l \in Strings }
DotInputs ==
  { [ok |-> TRUE, nodes |-> <<Node("n1", a)>>, edges |-> <<>>] : a \in NodeAttrs } \cup
  { [ok |-> TRUE, nodes |-> <<Node("n1", a[1]), Node("n2", a[2])>>,
     edges |-> << <<"n1", "n2">> >>] : a \in NodeAttrs \X NodeAttrs }

InitGraph ==
  /\ pc = "init"
  /\ args = [clean |-> FALSE, cpp_dir |-> <<>>, rust_dir |-> <<>>]
  /\ run = 0
  /\ cwd = WORK_DIRECTORY
  /\ \E c \in DotInputs : files = [n \in {CallPath} |-> c]
  /\ reach = [h \in Hosts |-> FALSE]
  /\ faults = 0
  /\ db = [h \in Hosts |-> {}]
  /\ eco = "call"
  /\ module = NoModule
  /\ mods = <<>>
  /\ \E labels \in LabelLists : ld = [NoFrame EXCEPT !.path = CallPath, !.labels = labels]
  /\ graph = NoGraph
  /\ trace = <<>>
  /\ exc = ""

\* graph = dot_to_mg_graph(path, labels)
CallDotToMgGraph ==
  /\ pc = "init"
  /\ graph' = dot_to_mg_graph(ReadFile(files, ld.path), ld.labels)
  /\ IF graph'.exc # "" THEN Raise("dot_to_mg_graph") ELSE pc' = "done" /\ exc' = exc
  /\ UNCHANGED <<args, run, cwd, files, reach, faults, db, eco, module, mods, ld, trace>>

NextGraph == CallDotToMgGraph

SpecGraph == InitGraph /\ [][NextGraph]_vars

\* ================================================================ claims
Finished == pc \in {"done", "crashed"}
Analyze == run >= 1 /\ ~args.clean
Did(op, f) == \E i \in DOMAIN trace : trace[i].op = op /\ trace[i].f = f
Happened(op) == \E i \in DOMAIN trace : trace[i].op = op
Checked(fn, res) ==
  \E i \in DOMAIN trace : trace[i].op = fn /\ trace[i].f = <<>> /\ trace[i].res = res
HasPrefix(n, pre) == Len(n) >= Len(pre) /\ SubSeq(n, 1, Len(pre)) = pre
HasSuffix(n, suf) == Len(n) >= Len(suf) /\ SubSeq(n, Len(n) - Len(suf) + 1, Len(n)) = suf
IsDotOrPng(n) == HasSuffix(n, DOT_EXT) \/ HasSuffix(n, PNG_EXT)

\* label with its surrounding quote characters removed, said without strip:
\* name is the stretch of label between a run of quotes at each end, and
\* neither begins nor ends with a quote.
Unquoted(label, name) ==
  \E i \in 1..Len(label) + 1, j \in 0..Len(label) :
    /\ name = SubSeq(label, i, j)
    /\ \A k \in 1..Len(label) : (k < i \/ k > j) => label[k] \in QuoteChars
    /\ name # <<>> => (name[1] \notin QuoteChars /\ name[Len(name)] \notin QuoteChars)

\* C1: dot_to_mg_graph(path, L) returns, for every DOT graph, a graph whose
\* every node has labels = L and name = its label without the surrounding
\* quotes, nodes without a label attribute included.
C1_EveryNodeAnnotated ==
  pc # "init" =>
    LET input == files[ld.path].nodes
    IN /\ graph.exc = ""
       /\ Len(graph.nodes) = Len(input)
       /\ \A i \in DOMAIN graph.nodes :
            /\ graph.nodes[i].attrs["labels"] = ld.labels
            /\ "label" \in DOMAIN input[i].attrs =>
                 Unquoted(input[i].attrs["label"], graph.nodes[i].attrs["name"])

\* C2: no readiness check raises: each returns True or False, and False
\* when the service or binary it probes is absent.
C2_ChecksNeverRaise ==
  \A i \in DOMAIN trace :
    trace[i].op \in {"is_memgraph_ready", "is_cmake_ready", "is_cargo_ready"} =>
      /\ trace[i].res \in {"True", "False"}
      /\ (trace[i].op = "is_memgraph_ready" /\ trace[i].probe = "down") => trace[i].res = "False"
      /\ (trace[i].op = "is_cmake_ready" /\ trace[i].probe = "missing") => trace[i].res = "False"
      /\ (trace[i].op = "is_cargo_ready" /\ trace[i].probe[1] = "missing") => trace[i].res = "False"

\* C3: a probe command that runs and exits non-zero makes its check return
\* False, and main() then skips that ecosystem.
C3_NonZeroIsNotReady ==
  \A i \in DOMAIN trace :
    /\ (trace[i].op = "is_cmake_ready" /\ trace[i].probe = "nonzero") =>
         (trace[i].res = "False" /\ ~Did("gen", OutDot("cpp", NoModule)))
    /\ (trace[i].op = "is_cargo_ready" /\ "nonzero" \in {trace[i].probe[1], trace[i].probe[2]}) =>
         (trace[i].res = "False" /\ pc # "scan")

RmRefused == \E n \in DOMAIN files : Head(n) = "-" /\ IsDotOrPng(n)

C5_RunReplaces ==
  /\ \A i \in DOMAIN trace :
       trace[i].op = "insert" => \E j \in 1..i - 1 : trace[j].op = "delete"
  /\ (Finished /\ Analyze /\ Happened("insert")) =>
       \A n \in db[MG_HOST] : n.run = run

\* C6: dot_to_memgraph(path, labels, host, port) with the database at
\* (host, port) not reachable executes nothing and only logs a warning;
\* what it executes it executes on a reachable database; and it never
\* leaves a proper non-empty prefix of its statements applied (said of the
\* calls whose DOT file parses).
C6_AllOrNothing ==
  (run >= 1 /\ Finished /\ graph.exc = "") =>
    /\ Did("target", ld.path) /\ (\E i \in DOMAIN trace : trace[i].op = "target" /\ trace[i].probe = "down")
         => (~Happened("insert") /\ Happened("warning") /\ pc = "done")
    /\ Happened("insert") =>
         \E i \in DOMAIN trace : trace[i].op = "target" /\ trace[i].probe = "up"
    /\ ~(Happened("insert") /\ ld.queries # <<>>)

NativeEntered == Did("gen", OutDot("cpp", NoModule)) \/ exc = "generate_cmake_dot"

\* C7: once the native-build step is entered, whatever happens in it, the
\* language-package step and the cargo check are reached and the run ends
\* without an uncaught exception; and a failing module does not keep the
\* for loop from the modules after it.
C7_NothingAborts ==
  /\ (Finished /\ Analyze /\ NativeEntered) =>
       /\ pc = "done"
       /\ Did("gen", OutDot("py", NoModule))
       /\ Happened("is_cargo_ready")
  /\ (Finished /\ Analyze /\ eco = "rs") => (pc = "done" /\ mods = <<>>)

TagOfFile(f) ==
  IF f = CPPDEPS \o DOT_EXT THEN "Cpp"
  ELSE IF f = PYDEPS \o DOT_EXT THEN "Python"
  ELSE IF HasPrefix(f, RSDEPS_) /\ HasSuffix(f, DOT_EXT) THEN "Rust"
  ELSE "none"

\* C8: every node in the database carries exactly one label, the one of
\* the ecosystem whose DOT file it was parsed from.
C8_OneTagPerNode ==
  \A h \in Hosts : \A n \in db[h] :
    n.q.op = "node" => n.q.labels = <<TagOfFile(n.file)>>

\* The database holds nodes of all three ecosystems.
C8_Witness ==
  \A t \in {"Cpp", "Python", "Rust"} :
    \E n \in db[MG_HOST] : n.q.op = "node" /\ n.q.labels = <<t>>

ManifestModules(dir) ==
  { e \in Children(dir) \cap Dirs : Append(e, CARGO_TOML) \in StaticFiles }
Times(op, f) == Cardinality({ i \in DOMAIN trace : trace[i].op = op /\ trace[i].f = f })

\* C9: in a run that ends normally with cargo and cargo-deps ready and
\* --rust-dir given, the modules generated, rendered and loaded are exactly
\* the immediate subdirectories with a Cargo.toml, each once.
C9_ExactlyTheManifestModules ==
  (pc = "done" /\ Analyze /\ Checked("is_cargo_ready", "True") /\ args.rust_dir # <<>>) =>
    LET expected == { RSDEPS_ \o e[Len(e)] \o DOT_EXT :
                        e \in ManifestModules(Resolve(WORK_DIRECTORY, args.rust_dir[1])) }
        touched == { trace[i].f : i \in { k \in DOMAIN trace :
                        trace[k].op \in {"gen", "render", "load"} /\ HasPrefix(trace[k].f, RSDEPS_) } }
    IN /\ touched = expected
       /\ \A f \in expected : \A op \in {"gen", "render", "load"} : Times(op, f) = 1

AllSteps(f) == Did("gen", f) /\ Did("render", f) /\ Did("load", f)
EcoRank(f) ==
  IF f = CPPDEPS \o DOT_EXT THEN 1 ELSE IF f = PYDEPS \o DOT_EXT THEN 2 ELSE 3
StepRank(op) == IF op = "gen" THEN 1 ELSE IF op = "render" THEN 2 ELSE 3

\* C10: in an analyze run that entered main(), the native-build steps occur
\* exactly when cmake is ready and --cpp-dir is given, the language-package
\* steps always, the secondary steps only with cargo ready and --rust-dir
\* given; ecosystems come in the order native, language, secondary and each
\* one's steps in the order generate, render, load.
C10_GatingAndOrder ==
  (Finished /\ Analyze /\ Happened("is_cmake_ready")) =>
    LET steps == { i \in DOMAIN trace : trace[i].op \in {"gen", "render", "load"} }
    IN /\ AllSteps(OutDot("cpp", NoModule)) <=>
            (Checked("is_cmake_ready", "True") /\ args.cpp_dir # <<>>)
       /\ AllSteps(OutDot("py", NoModule))
       /\ (\E i \in steps : EcoRank(trace[i].f) = 3) =>
            (Checked("is_cargo_ready", "True") /\ args.rust_dir # <<>>)
       /\ \A i \in steps : \A j \in steps :
            i < j => /\ EcoRank(trace[i].f) <= EcoRank(trace[j].f)
                     /\ trace[i].f = trace[j].f => StepRank(trace[i].op) < StepRank(trace[j].op)
====
